---- MODULE Spec2Model ----
(***************************************************************************)
(* Volume-price-analysis classifier and backtest simulator of              *)
(* vpa_coulling.py / vpa_etf_daily.py (the two files hold the same         *)
(* detect_vpa_anomalies and backtest_vpa).                                 *)
(*                                                                         *)
(* A DataFrame is a record of columns (sequences); the Python row index k  *)
(* (0-based) is position k + 1 of each column.  The model is of the two    *)
(* functions called directly, detect_vpa_anomalies(df, lookback) and then  *)
(* backtest_vpa on the frame it returns, with any arguments; it is not of  *)
(* main, which passes the defaults only and reads df.index[0] before       *)
(* either call.  Several runs (one per mode) advance in lock step so that  *)
(* runs on the same frame, or on frames differing in one bar, can be       *)
(* compared.  Floats are exact rationals [n, d]; the rolling quantiles     *)
(* are kept multiplied by 4 (the interpolation weights are quarters).      *)
(***************************************************************************)
EXTENDS Integers, Sequences, FiniteSets, TLC

VARIABLES
    df,             \* the frames: the bars (Date is the index, row.name), then
                    \* the classified frames detect_vpa_anomalies returns
    lookback,       \* detect_vpa_anomalies' lookback
    hold_bars,      \* backtest_vpa's hold_bars
    cost,           \* backtest_vpa's cost, a rational
    initial_equity, \* backtest_vpa's initial_equity, a rational
    mode,           \* per run: backtest_vpa's mode
    pc,             \* "detect", "backtest", "loop", "done"
    i,              \* the next value of backtest_vpa's loop variable
    position,       \* per run: 0 flat, 1 long, -1 short
    bars_held,      \* per run
    entry_date,     \* per run
    trades,         \* per run: the list of trade records
    equity,         \* per run: the list of equity points
    pnl,            \* per run: the pnl of the bar processed last
    result          \* per run: the Equity column of the returned frame

vars == <<df, lookback, hold_bars, cost, initial_equity, mode, pc, i,
          position, bars_held, entry_date, trades, equity, pnl, result>>

----------------------------------------------------------------------------
(* Bounds of the model *)

MaxBars == 6
MaxRichBars == 3
MaxLookback == 3
MaxHold == 2
MaxLagBars == 4
MaxRawBars == 3
MaxRawDate == 3
MaxPeriod == 3
MaxScenarioSpread == 5

----------------------------------------------------------------------------
(* The program's configuration *)

INITIAL_EQUITY == 10000
LOOKBACK_WINDOW == 20
HOLD_BARS == 5

----------------------------------------------------------------------------
(* Exact rationals standing for the floats *)

Abs(x) == IF x < 0 THEN -x ELSE x

RECURSIVE Gcd(_, _)
Gcd(a, b) == IF b = 0 THEN a ELSE Gcd(b, a % b)

Rat(n, d) ==
    LET g == Gcd(Abs(n), Abs(d))
        s == IF d < 0 THEN -1 ELSE 1
    IN  [n |-> s * (n \div g), d |-> s * (d \div g)]

RInt(k) == [n |-> k, d |-> 1]
RAdd(x, y) == Rat(x.n * y.d + y.n * x.d, x.d * y.d)
RSub(x, y) == Rat(x.n * y.d - y.n * x.d, x.d * y.d)
RMul(x, y) == Rat(x.n * y.n, x.d * y.d)
RScale(k, x) == Rat(k * x.n, x.d)

----------------------------------------------------------------------------
(* detect_vpa_anomalies *)

\* A frame is a record of columns, each a sequence with one value per row.
NRows(d) == Len(d.Close)

\* The value a comparison never satisfies; a number x is <<x>>.
NaN == <<>>

\* Series > threshold and Series < threshold, row by row; False against NaN.
\* The thresholds are held multiplied by 4.
GreaterThan(col, thr) ==
    [k \in 1..Len(col) |-> thr[k] # NaN /\ 4 * col[k] > thr[k][1]]
LessThan(col, thr) ==
    [k \in 1..Len(col) |-> thr[k] # NaN /\ 4 * col[k] < thr[k][1]]

\* The j-th smallest (0-based) value of a window.
Kth(win, j) ==
    CHOOSE v \in {win[k] : k \in 1..Len(win)} :
        /\ Cardinality({k \in 1..Len(win) : win[k] < v}) <= j
        /\ j < Cardinality({k \in 1..Len(win) : win[k] <= v})

\* 4 * quantile(q4 / 4) of a full window, linear interpolation.
Quantile4(win, q4) ==
    LET h4 == q4 * (Len(win) - 1)
        lo == h4 \div 4
        fr == h4 % 4
        vlow == Kth(win, lo)
    IN  IF fr = 0 THEN 4 * vlow
        ELSE 4 * vlow + (Kth(win, lo + 1) - vlow) * fr

\* The rows rolling(window) aggregates at position k of the column: the last
\* `window` rows, row k being the last of them.
RollingWindow(col, k, window) == SubSeq(col, k + 1 - window, k)

\* col.rolling(window).quantile(q4 / 4); NaN until the window is full.
rolling_quantile(col, window, q4) ==
    [k \in 1..Len(col) |->
        IF k < window THEN NaN
        ELSE <<Quantile4(RollingWindow(col, k, window), q4)>>]

Spread(d) == [k \in 1..NRows(d) |-> Abs(d.High[k] - d.Low[k])]
Body(d) == [k \in 1..NRows(d) |-> d.Close[k] - d.Open[k]]
IsUp(d) == [k \in 1..NRows(d) |-> d.Body[k] > 0]
IsDown(d) == [k \in 1..NRows(d) |-> d.Body[k] < 0]

WideSpread(d) == GreaterThan(d.Spread, d.Spread_p75)
NarrowSpread(d) == LessThan(d.Spread, d.Spread_p25)
LowVol(d) == LessThan(d.Volume, d.Vol_p_low)
\* Variant: the comparison turned round.
HighVol_Below(d) == LessThan(d.Volume, d.Vol_p_high)
HighVol(d) == GreaterThan(d.Volume, d.Vol_p_high)

\* a & b & c of boolean columns, and a | b
And3(a, b, c) == [k \in 1..Len(a) |-> a[k] /\ b[k] /\ c[k]]
Or2(a, b) == [k \in 1..Len(a) |-> a[k] \/ b[k]]

Anomaly_FakeUp(d) == And3(d.IsUp, d.WideSpread, d.LowVol)
Anomaly_FakeDown(d) == And3(d.IsDown, d.WideSpread, d.LowVol)
\* Variant: the Confirm_Up line pasted over the AbsorbUp one.
Anomaly_AbsorbUp_Wide(d) == And3(d.IsUp, d.WideSpread, d.HighVol)
Anomaly_AbsorbUp(d) == And3(d.IsUp, d.NarrowSpread, d.HighVol)
Anomaly_AbsorbDown(d) == And3(d.IsDown, d.NarrowSpread, d.HighVol)
Confirm_Up(d) == And3(d.IsUp, d.WideSpread, d.HighVol)
Confirm_Down(d) == And3(d.IsDown, d.WideSpread, d.HighVol)

Signal_Long(d) == Or2(d.Anomaly_FakeDown, d.Anomaly_AbsorbDown)
\* Variant: AbsorbDown where AbsorbUp belongs.
Signal_Short_Down(d) == Or2(d.Anomaly_FakeUp, d.Anomaly_AbsorbDown)
Signal_Short(d) == Or2(d.Anomaly_FakeUp, d.Anomaly_AbsorbUp)

\* The frame detect_vpa_anomalies returns: the input's columns and, one
\* assignment after the other, the derived ones.
detect_vpa_anomalies(frame, lb) ==
    LET d1 == frame @@ [Spread |-> Spread(frame), Body |-> Body(frame)]
        d2 == d1 @@ [IsUp |-> IsUp(d1), IsDown |-> IsDown(d1)]
        d3 == d2 @@ [Spread_p75 |-> rolling_quantile(d2.Spread, lb, 3),
                     Spread_p25 |-> rolling_quantile(d2.Spread, lb, 1),
                     Vol_p_low |-> rolling_quantile(d2.Volume, lb, 1),
                     Vol_p_high |-> rolling_quantile(d2.Volume, lb, 3)]
        d4 == d3 @@ [WideSpread |-> WideSpread(d3),
                     NarrowSpread |-> NarrowSpread(d3),
                     LowVol |-> LowVol(d3),
                     HighVol |-> HighVol(d3)]
        d5 == d4 @@ [Anomaly_FakeUp |-> Anomaly_FakeUp(d4),
                     Anomaly_FakeDown |-> Anomaly_FakeDown(d4),
                     Anomaly_AbsorbUp |-> Anomaly_AbsorbUp(d4),
                     Anomaly_AbsorbDown |-> Anomaly_AbsorbDown(d4),
                     Confirm_Up |-> Confirm_Up(d4),
                     Confirm_Down |-> Confirm_Down(d4)]
    IN  d5 @@ [Signal_Long |-> Signal_Long(d5),
               Signal_Short |-> Signal_Short(d5)]

----------------------------------------------------------------------------
(* backtest_vpa *)

\* entry_date = None
NoDate == 0

\* data['Return'] at row k: Close.pct_change().fillna(0.0)
Return(d, k) ==
    IF k = 0 THEN RInt(0)
    ELSE Rat(d.Close[k + 1] - d.Close[k], d.Close[k])

\* data.iloc[k][col]
At(d, col, k) == d[col][k + 1]

\* Variant: the signals of the bar being processed (look-ahead).
PrevRow_Current(d, k) ==
    [Signal_Long |-> At(d, "Signal_Long", k),
     Signal_Short |-> At(d, "Signal_Short", k)]

\* prev_row = data.iloc[i - 1], of which the entry block reads the two signals
PrevRow(d, k) ==
    [Signal_Long |-> At(d, "Signal_Long", k - 1),
     Signal_Short |-> At(d, "Signal_Short", k - 1)]

\* pnl = position * daily_ret if position != 0 else 0.0
Accrue(pos, daily_ret) == IF pos # 0 THEN RScale(pos, daily_ret) ELSE RInt(0)

\* if position != 0: bars_held += 1
Aged(pos, held) == IF pos # 0 THEN held + 1 ELSE held

\* Variant: > for >=, the exit one bar late.
ExitDue_Late(pos, held, hold) == pos # 0 /\ held > hold

\* if position != 0 and bars_held >= hold_bars
ExitDue(pos, held, hold) == pos # 0 /\ held >= hold

Direction(pos) == IF pos = 1 THEN "LONG" ELSE "SHORT"

PermitsLong(m) == m \in {"long_only", "long_short"}
\* Variant: long_short left out of the modes that may go short.
PermitsShort_Only(m) == m \in {"short_only"}
PermitsShort(m) == m \in {"short_only", "long_short"}

\* The if / elif of the entry block: the side entered, 0 for none.
EntrySide(prev_row, m) ==
    IF prev_row.Signal_Long /\ PermitsLong(m) THEN 1
    ELSE IF prev_row.Signal_Short /\ PermitsShort(m) THEN -1
    ELSE 0

\* Variant: the entry block asks whether the run was flat when the bar began,
\* so a position closed on a bar is not replaced on it.
LoopBody_NoReentry(d, k, s, hold, c, m) ==
    LET row == [Date |-> At(d, "Date", k)]
        prev_row == PrevRow(d, k)
        pnl0 == Accrue(s.position, Return(d, k))
        held1 == Aged(s.position, s.bars_held)
        exit == ExitDue(s.position, held1, hold)
        pnl1 == IF exit THEN RSub(pnl0, c) ELSE pnl0
        trades1 == IF exit
                   THEN Append(s.trades,
                               [entry_date |-> s.entry_date,
                                exit_date |-> row.Date,
                                direction |-> Direction(s.position),
                                bars_held |-> held1])
                   ELSE s.trades
        position1 == IF exit THEN 0 ELSE s.position
        held2 == IF exit THEN 0 ELSE held1
        side == IF s.position = 0 THEN EntrySide(prev_row, m) ELSE 0
        pnl2 == IF side # 0 THEN RSub(pnl1, c) ELSE pnl1
    IN  [position |-> IF side # 0 THEN side ELSE position1,
         bars_held |-> IF side # 0 THEN 0 ELSE held2,
         entry_date |-> IF side # 0 THEN row.Date ELSE s.entry_date,
         trades |-> trades1,
         pnl |-> pnl2,
         equity |-> Append(s.equity,
                           RMul(s.equity[Len(s.equity)], RAdd(RInt(1), pnl2)))]

\* One iteration of the loop for one run: the state after it.
LoopBody(d, k, s, hold, c, m) ==
    LET row == [Date |-> At(d, "Date", k)]
        prev_row == PrevRow(d, k)
        pnl0 == Accrue(s.position, Return(d, k))
        held1 == Aged(s.position, s.bars_held)
        exit == ExitDue(s.position, held1, hold)
        pnl1 == IF exit THEN RSub(pnl0, c) ELSE pnl0
        trades1 == IF exit
                   THEN Append(s.trades,
                               [entry_date |-> s.entry_date,
                                exit_date |-> row.Date,
                                direction |-> Direction(s.position),
                                bars_held |-> held1])
                   ELSE s.trades
        position1 == IF exit THEN 0 ELSE s.position
        held2 == IF exit THEN 0 ELSE held1
        side == IF position1 = 0 THEN EntrySide(prev_row, m) ELSE 0
        pnl2 == IF side # 0 THEN RSub(pnl1, c) ELSE pnl1
    IN  [position |-> IF side # 0 THEN side ELSE position1,
         bars_held |-> IF side # 0 THEN 0 ELSE held2,
         entry_date |-> IF side # 0 THEN row.Date ELSE s.entry_date,
         trades |-> trades1,
         pnl |-> pnl2,
         equity |-> Append(s.equity,
                           RMul(s.equity[Len(s.equity)], RAdd(RInt(1), pnl2)))]

Runs == DOMAIN mode

\* The df argument of run r's backtest_vpa call: the runs take the frames in
\* turn.
FrameOf(r) == df[((r - 1) % Len(df)) + 1]

RunState(r) ==
    [position |-> position[r], bars_held |-> bars_held[r],
     entry_date |-> entry_date[r], trades |-> trades[r],
     pnl |-> pnl[r], equity |-> equity[r]]

----------------------------------------------------------------------------
(* Inputs *)

\* The k-th (0-based) trading day: five sessions, then a weekend.
TradingDay(k) == k + 1 + 2 * (k \div 5)

\* Four bars (up or down, spread 1 on volume 2 or spread 2 on volume 1) from
\* which every sequence of Long / Short / no signal arises under lookback 2.
LeanPool ==
    {[Open |-> o, Close |-> 3 - o, Low |-> 1, High |-> 1 + s, Volume |-> 3 - s] :
        o \in 1..2, s \in 1..2}

\* With a wide high-volume bar of each direction and a flat zero-volume bar.
RichPool ==
    LeanPool
    \cup {[Open |-> o, Close |-> 3 - o, Low |-> 1, High |-> 4, Volume |-> 3] :
            o \in 1..2}
    \cup {[Open |-> 1, Close |-> 1, Low |-> 1, High |-> 1, Volume |-> 0]}

\* The frame of a sequence of bars on the given dates.
Frame(bars, dates) ==
    [Date |-> dates,
     Open |-> [k \in 1..Len(bars) |-> bars[k].Open],
     High |-> [k \in 1..Len(bars) |-> bars[k].High],
     Low |-> [k \in 1..Len(bars) |-> bars[k].Low],
     Close |-> [k \in 1..Len(bars) |-> bars[k].Close],
     Volume |-> [k \in 1..Len(bars) |-> bars[k].Volume]]

Calendar(n) == [k \in 1..n |-> TradingDay(k - 1)]

Modes == <<"long_only", "short_only", "long_short">>

Blank(n) == [r \in 1..n |-> <<>>]

Start(dfs, modes, lb, hold, c, eq0) ==
    /\ df = dfs
    /\ mode = modes
    /\ lookback = lb
    /\ hold_bars = hold
    /\ cost = c
    /\ initial_equity = eq0
    /\ pc = "detect"
    /\ i = 0
    /\ position = [r \in 1..Len(modes) |-> 0]
    /\ bars_held = [r \in 1..Len(modes) |-> 0]
    /\ entry_date = [r \in 1..Len(modes) |-> NoDate]
    /\ trades = Blank(Len(modes))
    /\ equity = Blank(Len(modes))
    /\ pnl = [r \in 1..Len(modes) |-> RInt(0)]
    /\ result = Blank(Len(modes))

\* The arguments of the two functions: short series of any bars (the empty
\* one among them) under every lookback and hold_bars; longer series of the
\* four lean bars under lookback 2 and the shortest and longest hold_bars.
\* One backtest_vpa call per mode, all on the same classified frame.
Init ==
    \E n \in 0..MaxBars :
        \E bars \in [1..n -> IF n <= MaxRichBars THEN RichPool ELSE LeanPool],
           lb \in IF n <= MaxRichBars THEN 1..MaxLookback ELSE {2},
           hold \in IF n <= MaxRichBars THEN 1..MaxHold ELSE {1, MaxHold} :
            Start(<<Frame(bars, Calendar(n))>>, Modes, lb, hold, Rat(1, 4), RInt(1))

\* Two frames that are the same but for one bar, each run under every mode.
InitLag ==
    \E n \in 2..MaxLagBars :
        \E bars \in [1..n -> LeanPool], k \in 1..n, hold \in 1..MaxHold :
            \E other \in LeanPool \ {bars[k]} :
                Start(<<Frame(bars, Calendar(n)),
                        Frame([bars EXCEPT ![k] = other], Calendar(n))>>,
                      <<"long_only", "long_only", "short_only", "short_only",
                        "long_short", "long_short">>,
                      2, hold, Rat(1, 4), RInt(1))

\* Bars on any dates, in order or not, with any initial equity.
InitRaw ==
    \E n \in 2..MaxRawBars :
        \E bars \in [1..n -> LeanPool], dates \in [1..n -> 1..MaxRawDate],
           eq0 \in -1..1 :
            Start(<<Frame(bars, dates)>>, Modes, 2, 1, Rat(1, 4), RInt(eq0))

\* The scenario of a volume spike at row LOOKBACK_WINDOW + 5 under the default
\* lookback: periodic spreads and volumes (or no volume at all) before it,
\* optionally a wide
\* zero-volume down bar just before it, and a bar of any spread and direction
\* whose volume is the largest of the 20 bars before it, or 10 times that.
ScenarioBar == LOOKBACK_WINDOW + 5

MaxOf(col) == CHOOSE v \in {col[k] : k \in 1..Len(col)} :
                  \A k \in 1..Len(col) : col[k] <= v

PeriodicBar(k, sper, vper, idle) ==
    [Open |-> 1 + (k % 2), Close |-> 2 - (k % 2), Low |-> 1,
     High |-> 3 + (k % sper), Volume |-> IF idle THEN 0 ELSE 1 + (k % vper)]

ScenarioBars(sper, vper, idle, spike, s, mult, up) ==
    LET base == [k \in 1..(ScenarioBar + 3) |-> PeriodicBar(k - 1, sper, vper, idle)]
        top == MaxOf([k \in 1..LOOKBACK_WINDOW |->
                        base[ScenarioBar - LOOKBACK_WINDOW + k].Volume])
    IN  [k \in 1..(ScenarioBar + 3) |->
            IF k = ScenarioBar + 1
            THEN [Open |-> IF up THEN 1 ELSE 2, Close |-> IF up THEN 2 ELSE 1,
                  Low |-> 1, High |-> 1 + s, Volume |-> mult * top]
            ELSE IF k = ScenarioBar /\ spike
            THEN [Open |-> 2, Close |-> 1, Low |-> 1, High |-> 7, Volume |-> 0]
            ELSE base[k]]

InitScenario ==
    \E up \in BOOLEAN, mult \in {1, 10}, s \in 1..MaxScenarioSpread,
       spike \in BOOLEAN, sper \in 1..MaxPeriod, vper \in 1..MaxPeriod,
       hold \in {1, 2, HOLD_BARS}, idle \in BOOLEAN :
        Start(<<Frame(ScenarioBars(sper, vper, idle, spike, s, mult, up),
                      Calendar(ScenarioBar + 3))>>,
              Modes, LOOKBACK_WINDOW, hold, Rat(1, 4), RInt(INITIAL_EQUITY))

----------------------------------------------------------------------------
(* Actions *)

\* The call detect_vpa_anomalies(df, lookback); df becomes the frame returned
Detect ==
    /\ pc = "detect"
    /\ df' = [f \in DOMAIN df |-> detect_vpa_anomalies(df[f], lookback)]
    /\ pc' = "backtest"
    /\ UNCHANGED <<lookback, hold_bars, cost, initial_equity, mode, i,
                   position, bars_held, entry_date, trades, equity, pnl, result>>

\* backtest_vpa up to the loop
BacktestStart ==
    /\ pc = "backtest"
    /\ equity' = [r \in Runs |-> <<initial_equity>>]
    /\ position' = [r \in Runs |-> 0]
    /\ bars_held' = [r \in Runs |-> 0]
    /\ entry_date' = [r \in Runs |-> NoDate]
    /\ trades' = [r \in Runs |-> <<>>]
    /\ i' = 1
    /\ pc' = "loop"
    /\ UNCHANGED <<df, lookback, hold_bars, cost, initial_equity, mode, pnl,
                   result>>

\* for i in range(1, len(data)): one iteration, in every run
BacktestStep ==
    /\ pc = "loop"
    /\ i < NRows(df[1])
    /\ \E next \in {[r \in Runs |->
                      LoopBody(FrameOf(r), i, RunState(r), hold_bars, cost, mode[r])]} :
           /\ position' = [r \in Runs |-> next[r].position]
           /\ bars_held' = [r \in Runs |-> next[r].bars_held]
           /\ entry_date' = [r \in Runs |-> next[r].entry_date]
           /\ trades' = [r \in Runs |-> next[r].trades]
           /\ equity' = [r \in Runs |-> next[r].equity]
           /\ pnl' = [r \in Runs |-> next[r].pnl]
    /\ i' = i + 1
    /\ UNCHANGED <<df, lookback, hold_bars, cost, initial_equity, mode, pc,
                   result>>

\* The loop is over: data['Equity'] = equity; return data, trades
BacktestReturn ==
    /\ pc = "loop"
    /\ i >= NRows(df[1])
    /\ result' = [r \in Runs |-> equity[r]]
    /\ pc' = "done"
    /\ UNCHANGED <<df, lookback, hold_bars, cost, initial_equity, mode, i,
                   position, bars_held, entry_date, trades, equity, pnl>>

Next == Detect \/ BacktestStart \/ BacktestStep \/ BacktestReturn

Spec == Init /\ [][Next]_vars

SpecLag == InitLag /\ [][Next]_vars

SpecRaw == InitRaw /\ [][Next]_vars

SpecScenario == InitScenario /\ [][Next]_vars

----------------------------------------------------------------------------
(* Properties *)

Classified == pc # "detect"

RegimeFlags == {"WideSpread", "NarrowSpread", "LowVol", "HighVol"}
Categories == {"Anomaly_FakeUp", "Anomaly_FakeDown", "Anomaly_AbsorbUp",
               "Anomaly_AbsorbDown", "Confirm_Up", "Confirm_Down"}
Signals == {"Signal_Long", "Signal_Short"}

\* Some flag, category or signal is set at position k of a classified frame.
AnySet(d, k) == \E c \in RegimeFlags \cup Categories \cup Signals : d[c][k]

\* The row index (0-based) of a date of the frame.
RowOf(d, date) == CHOOSE k \in 0..(NRows(d) - 1) : d.Date[k + 1] = date

RunOf(m) == CHOOSE r \in Runs : mode[r] = m

TradesOf(r) == {trades[r][t] : t \in 1..Len(trades[r])}

\* C1: every trade has bars_held = hold_bars, leaves hold_bars rows after it
\* entered, on a later date; a position open when the bars run out left no
\* trade record.
C1_FixedHorizon ==
    \A r \in Runs :
        /\ \A t \in TradesOf(r) :
            /\ t.bars_held = hold_bars
            /\ RowOf(FrameOf(r), t.exit_date)
                 = RowOf(FrameOf(r), t.entry_date) + hold_bars
            /\ t.exit_date > t.entry_date
        /\ (pc = "done" /\ position[r] # 0) =>
              \A t \in TradesOf(r) : t.entry_date # entry_date[r]

\* A run has returned with a closed trade and a position still open.
C1_Witness ==
    /\ pc = "done"
    /\ \E r \in Runs : /\ Len(trades[r]) >= 1
                       /\ position[r] # 0
                       /\ hold_bars >= 2

\* The columns of the two frames that differ: the row (position) they differ at.
LagRow ==
    CHOOSE k \in 1..NRows(df[1]) :
        \E c \in {"Open", "High", "Low", "Close", "Volume"} :
            df[1][c][k] # df[2][c][k]

\* C2: of two runs on frames that differ only in the bar at row LagRow - 1, in
\* the same mode, the position, bars_held and trades agree until that bar has
\* been processed.
C2_SignalLag ==
    (pc = "loop" /\ i <= LagRow) =>
        \A r \in Runs :
            (r % 2 = 1) =>
                /\ position[r] = position[r + 1]
                /\ bars_held[r] = bars_held[r + 1]
                /\ trades[r] = trades[r + 1]

\* The changed bar has just been processed with a position open, and the two
\* frames give it different signals.
C2_Witness ==
    /\ pc = "loop"
    /\ i = LagRow
    /\ \E r \in Runs : position[r] # 0
    /\ df[1].Signal_Long[LagRow] # df[2].Signal_Long[LagRow]

\* C3 (as claimed): the thresholds of a row are the quantiles of the `lookback`
\* rows strictly before it, and no flag, category or signal is set at a row of
\* index < lookback.
C3_WindowBeforeBar ==
    Classified =>
        \A f \in DOMAIN df :
            \A k \in 1..NRows(df[f]) :
                IF k <= lookback
                THEN ~AnySet(df[f], k)
                ELSE /\ df[f].Spread_p75[k]
                          = <<Quantile4(SubSeq(df[f].Spread, k - lookback, k - 1), 3)>>
                     /\ df[f].Spread_p25[k]
                          = <<Quantile4(SubSeq(df[f].Spread, k - lookback, k - 1), 1)>>
                     /\ df[f].Vol_p_high[k]
                          = <<Quantile4(SubSeq(df[f].Volume, k - lookback, k - 1), 3)>>
                     /\ df[f].Vol_p_low[k]
                          = <<Quantile4(SubSeq(df[f].Volume, k - lookback, k - 1), 1)>>

\* C4: no row has two of the six categories.
C4_CategoriesExclusive ==
    Classified =>
        \A f \in DOMAIN df :
            \A k \in 1..NRows(df[f]) :
                Cardinality({c \in Categories : df[f][c][k]}) <= 1

\* A frame with a confirmed down move at one row and a fake up move at another.
C4_Witness ==
    /\ Classified
    /\ \E k1, k2 \in 1..NRows(df[1]) :
          df[1].Confirm_Down[k1] /\ df[1].Anomaly_FakeUp[k2]

\* C5 (as claimed): every trade of the short_only run is a trade of the
\* long_short run on the same frame.
C5_ShortOnlySubset ==
    pc = "done" => TradesOf(RunOf("short_only")) \subseteq TradesOf(RunOf("long_short"))

\* The long_short run has opened no Long position so far.
NoLongOpened(r) ==
    /\ position[r] # 1
    /\ \A t \in TradesOf(r) : t.direction # "LONG"

\* C5 (amended): as long as the long_short run has opened no Long position,
\* every trade of the short_only run is a trade of the long_short run.
C5_ShortOnlySubsetNoLong ==
    (pc \in {"loop", "done"} /\ NoLongOpened(RunOf("long_short"))) =>
        TradesOf(RunOf("short_only")) \subseteq TradesOf(RunOf("long_short"))

\* Both runs returned a Short trade although a bar carried a Long signal,
\* which the long_short run, short at the time, did not act on.
C5_Witness ==
    /\ pc = "done"
    /\ NoLongOpened(RunOf("long_short"))
    /\ Len(trades[RunOf("short_only")]) >= 1
    /\ \E k \in 1..(NRows(df[1]) - 1) : df[1].Signal_Long[k]

\* C6 (as claimed): a frame of fewer than lookback + 1 rows is classified with
\* nothing set, and backtest_vpa returns on it an equity column of
\* initial_equity throughout and no trade.
C6_InsufficientData ==
    \A r \in Runs :
        NRows(FrameOf(r)) < lookback + 1 =>
            /\ Classified => \A k \in 1..NRows(FrameOf(r)) : ~AnySet(FrameOf(r), k)
            /\ pc = "done" =>
                  /\ trades[r] = <<>>
                  /\ Len(result[r]) >= 1
                  /\ \A k \in 1..Len(result[r]) : result[r][k] = initial_equity

\* The dates do not strictly increase, or the initial equity is not positive.
Malformed ==
    \/ \E k \in 1..(NRows(df[1]) - 1) : df[1].Date[k] >= df[1].Date[k + 1]
    \/ initial_equity.n <= 0

\* C7 (as claimed): on malformed input backtest_vpa processes no bar and does
\* not return: no equity point beyond the seed, no trade.
C7_FailFast ==
    Malformed =>
        /\ pc # "done"
        /\ \A r \in Runs : Len(equity[r]) <= 1 /\ trades[r] = <<>>

\* The bar at row ScenarioBar of frame d closes up on 10 times the largest
\* volume of the 20 bars before it.
SpikeUp(d) ==
    /\ lookback = LOOKBACK_WINDOW
    /\ NRows(d) > ScenarioBar + 1
    /\ d.Close[ScenarioBar + 1] > d.Open[ScenarioBar + 1]
    /\ d.Volume[ScenarioBar + 1]
         = 10 * MaxOf(SubSeq(d.Volume, ScenarioBar + 1 - LOOKBACK_WINDOW, ScenarioBar))

SpreadOf(d, k) == Abs(d.High[k] - d.Low[k])
SpreadsOf(d, from, to) == [k \in 1..(to - from + 1) |-> SpreadOf(d, from + k - 1)]

\* Its spread lies between the quartiles of the spreads of the 20 bars before it.
SpreadInsideQuartiles(d) ==
    LET before == SpreadsOf(d, ScenarioBar + 1 - LOOKBACK_WINDOW, ScenarioBar)
    IN  /\ 4 * SpreadOf(d, ScenarioBar + 1) >= Quantile4(before, 1)
        /\ 4 * SpreadOf(d, ScenarioBar + 1) <= Quantile4(before, 3)

\* Its spread is below the first quartile of the spreads of the 20 bars that
\* end with it.
SpreadBelowQuartile(d) ==
    4 * SpreadOf(d, ScenarioBar + 1)
        < Quantile4(SpreadsOf(d, ScenarioBar + 2 - LOOKBACK_WINDOW, ScenarioBar + 1), 1)

\* The bar is AbsorbUp and a Short signal, and the long_short run, unless it
\* holds an older position through the next bar, is Short from the next bar.
ShortOnNextBar(d) ==
    Classified =>
        /\ d.Anomaly_AbsorbUp[ScenarioBar + 1]
        /\ d.Signal_Short[ScenarioBar + 1]
        /\ (/\ pc = "loop"
            /\ i = ScenarioBar + 2
            /\ ~ (/\ position[RunOf("long_short")] # 0
                  /\ entry_date[RunOf("long_short")] < d.Date[ScenarioBar + 2]))
           => /\ position[RunOf("long_short")] = -1
              /\ entry_date[RunOf("long_short")] = d.Date[ScenarioBar + 2]
              /\ bars_held[RunOf("long_short")] = 0

\* C8 (as claimed): a spread inside the quartiles.
C8_SpikeInsideQuartiles ==
    (SpikeUp(df[1]) /\ SpreadInsideQuartiles(df[1])) => ShortOnNextBar(df[1])

\* C8 (amended): a spread below the first quartile of the window the code
\* uses, and a positive volume.
C8_SpikeBelowQuartile ==
    (/\ SpikeUp(df[1])
     /\ df[1].Volume[ScenarioBar + 1] > 0
     /\ SpreadBelowQuartile(df[1])) => ShortOnNextBar(df[1])

\* The long_short run closed a Long position on bar 26 and went Short on it.
C8_Witness ==
    /\ SpikeUp(df[1])
    /\ df[1].Volume[ScenarioBar + 1] > 0
    /\ SpreadBelowQuartile(df[1])
    /\ pc = "loop"
    /\ i = ScenarioBar + 2
    /\ position[RunOf("long_short")] = -1
    /\ entry_date[RunOf("long_short")] = df[1].Date[ScenarioBar + 2]
    /\ \E t \in TradesOf(RunOf("long_short")) :
          t.direction = "LONG" /\ t.exit_date = df[1].Date[ScenarioBar + 2]

\* A signal of the row before row k that mode m permits: the side, 0 for none.
PermittedSignal(d, k, m) ==
    IF d.Signal_Long[k] /\ m \in {"long_only", "long_short"} THEN 1
    ELSE IF d.Signal_Short[k] /\ m \in {"short_only", "long_short"} THEN -1
    ELSE 0

\* What an iteration does to run r when it holds a position: the position is
\* kept while younger than hold_bars, else closed and possibly replaced.
C9_Step(r) ==
    LET d == FrameOf(r)
        raw == IF position[r] # 0 THEN RScale(position[r], Return(d, i)) ELSE RInt(0)
        side == PermittedSignal(d, i, mode[r])
    IN  /\ (position[r] # 0 /\ bars_held[r] + 1 < hold_bars) =>
              /\ position'[r] = position[r]
              /\ entry_date'[r] = entry_date[r]
              /\ bars_held'[r] = bars_held[r] + 1
              /\ trades'[r] = trades[r]
              /\ pnl'[r] = raw
        /\ (position[r] # 0 /\ bars_held[r] + 1 >= hold_bars) =>
              /\ Len(trades'[r]) = Len(trades[r]) + 1
              /\ trades'[r][Len(trades'[r])].exit_date = d.Date[i + 1]
              /\ trades'[r][Len(trades'[r])].entry_date = entry_date[r]
              /\ IF side # 0
                 THEN /\ position'[r] = side
                      /\ entry_date'[r] = d.Date[i + 1]
                      /\ bars_held'[r] = 0
                      /\ pnl'[r] = RSub(RSub(raw, cost), cost)
                 ELSE /\ position'[r] = 0
                      /\ pnl'[r] = RSub(raw, cost)

\* C9: in every iteration, a position younger than hold_bars stays as it is
\* whatever the signals; a position that reaches hold_bars is closed and, when
\* the previous row carries a permitted signal, replaced on the same bar, the
\* cost being charged twice.
C9_ExitThenEntry ==
    [][(pc = "loop" /\ i < NRows(df[1])) => \A r \in Runs : C9_Step(r)]_vars

\* A run closed a position and opened the next on the same bar, at a cost.
C9_Witness ==
    /\ pc = "loop"
    /\ cost.n > 0
    /\ \E r \in Runs :
          /\ position[r] # 0
          /\ bars_held[r] = 0
          /\ Len(trades[r]) >= 1
          /\ trades[r][Len(trades[r])].exit_date = entry_date[r]

\* C10: no row is both a Long and a Short signal, so a long_short run that
\* went Long did so on a row that was no Short signal.
C10_SignalsExclusive ==
    Classified =>
        /\ \A f \in DOMAIN df :
              \A k \in 1..NRows(df[f]) :
                  ~ (df[f].Signal_Long[k] /\ df[f].Signal_Short[k])
        /\ \A r \in Runs :
              (pc = "loop" /\ mode[r] = "long_short" /\ position[r] = 1) =>
                  ~ FrameOf(r).Signal_Short[RowOf(FrameOf(r), entry_date[r])]

\* The frame has a Long and a Short signal and the long_short run is Long.
C10_Witness ==
    /\ pc = "loop"
    /\ \E k1, k2 \in 1..NRows(df[1]) :
          df[1].Signal_Long[k1] /\ df[1].Signal_Short[k2]
    /\ position[RunOf("long_short")] = 1

====
